---------------------------- MODULE Spec2Model ----------------------------
(***************************************************************************)
(* Model of the synaptic trading-signal service: the rolling price window  *)
(* (models.py), the SMA / Wilder-RSI / decision functions (indicators.py)  *)
(* and the consumer / query paths of the asyncio service (main.py) fed by  *)
(* the simulated price stream (stream_stub.py).                            *)
(*                                                                         *)
(* Numbers.  Prices are integers.  Every Python float is modelled as an    *)
(* exact rational <<n, d>> in lowest terms with d > 0, so the arithmetic   *)
(* of the indicators is the real-number arithmetic of the source without   *)
(* IEEE rounding, NaN or infinities.  The values stay inside TLC's 32-bit  *)
(* integers as long as the Wilder averages are smoothed at most five times *)
(* after the first price move, which the inputs below are built to do.     *)
(***************************************************************************)
EXTENDS Integers, Sequences, FiniteSets, TLC

(***************************************************************************)
(* Exact rational arithmetic standing for Python float arithmetic.         *)
(***************************************************************************)
Abs(x) == IF x < 0 THEN 0 - x ELSE x

RECURSIVE GCD(_, _)
GCD(a, b) == IF b = 0 THEN a ELSE GCD(b, a % b)

Norm(n, d) ==
    LET g == GCD(Abs(n), Abs(d))
        s == IF d < 0 THEN 0 - 1 ELSE 1
    IN  <<(s * n) \div g, (s * d) \div g>>

\* float(x) of an integer price
Float(x) == <<x, 1>>

Zero == Float(0)

RAdd(a, b) ==
    LET g == GCD(a[2], b[2])
    IN  Norm(a[1] * (b[2] \div g) + b[1] * (a[2] \div g), (a[2] \div g) * b[2])

RNeg(a) == <<0 - a[1], a[2]>>

RSub(a, b) == RAdd(a, RNeg(b))

RMul(a, b) ==
    LET g1 == GCD(Abs(a[1]), b[2])
        g2 == GCD(Abs(b[1]), a[2])
    IN  Norm((a[1] \div g1) * (b[1] \div g2), (a[2] \div g2) * (b[2] \div g1))

\* a / b for b # 0
RDiv(a, b) == RMul(a, Norm(b[2], b[1]))

RLt(a, b) == a[1] * b[2] < b[1] * a[2]

(***************************************************************************)
(* indicators.py                                                           *)
(***************************************************************************)
\* raise ValueError("period must be > 0"): a result that is no number
ValueError == <<1, 0>>

RECURSIVE SumFrom(_, _)
\* total += float(p) for every index i >= start (1-based) of the deque;
\* the prices are integers, so the float total is their integer sum
SumFrom(prices, start) ==
    IF start > Len(prices) THEN 0
    ELSE prices[start] + SumFrom(prices, start + 1)

\* an SMA that averages the first `period` prices of the deque
calculate_sma_head(prices, period) ==
    LET n == Len(prices) IN
    IF period <= 0 THEN ValueError
    ELSE IF n = 0 THEN Zero
    ELSE IF n < period THEN Float(prices[n])
    ELSE RDiv(Float(SumFrom(prices, 1) - SumFrom(prices, period + 1)), Float(period))

\* an SMA that answers 0.0 whenever the data is insufficient
calculate_sma_zero(prices, period) ==
    LET n == Len(prices) IN
    IF period <= 0 THEN ValueError
    ELSE IF n < period THEN Zero
    ELSE RDiv(Float(SumFrom(prices, n - period + 1)), Float(period))

calculate_sma(prices, period) ==
    LET n == Len(prices) IN
    IF period <= 0 THEN ValueError
    ELSE IF n = 0 THEN Zero
    ELSE IF n < period THEN Float(prices[n])
    ELSE RDiv(Float(SumFrom(prices, n - period + 1)), Float(period))

\* deltas[i] = closes[i] - closes[i - 1], as a 1-based sequence of length n-1
Deltas(prices) == [i \in 1..(Len(prices) - 1) |-> prices[i + 1] - prices[i]]

\* max(d, 0.0) and max(-d, 0.0)
Gain(d) == IF d > 0 THEN d ELSE 0
\* a loss that counts the size of every move, upward ones included
LossOfAnyMove(d) == IF 0 - d > 0 THEN 0 - d ELSE d
Loss(d) == IF 0 - d > 0 THEN 0 - d ELSE 0

RECURSIVE SumGains(_, _)
\* sum(gains) over deltas[:k]
SumGains(deltas, k) ==
    IF k = 0 THEN 0 ELSE SumGains(deltas, k - 1) + Gain(deltas[k])

RECURSIVE SumLosses(_, _)
\* sum(losses) over deltas[:k]
SumLosses(deltas, k) ==
    IF k = 0 THEN 0 ELSE SumLosses(deltas, k - 1) + Loss(deltas[k])

\* averages seeded from the last `period` deltas, deltas[-period:]
SeedAveragesLast(deltas, period) ==
    <<RDiv(Float(SumGains(deltas, Len(deltas))
                   - SumGains(deltas, Len(deltas) - period)), Float(period)),
      RDiv(Float(SumLosses(deltas, Len(deltas))
                   - SumLosses(deltas, Len(deltas) - period)), Float(period))>>

\* the pair <<avg_gain, avg_loss>> seeded from the first `period` deltas
SeedAverages(deltas, period) ==
    <<RDiv(Float(SumGains(deltas, period)), Float(period)),
      RDiv(Float(SumLosses(deltas, period)), Float(period))>>

\* one pass of the Wilder smoothing loop body for delta d
SmoothStep(avg, d, period) ==
    <<RDiv(RAdd(RMul(avg[1], Float(period - 1)), Float(Gain(d))), Float(period)),
      RDiv(RAdd(RMul(avg[2], Float(period - 1)), Float(Loss(d))), Float(period))>>

RECURSIVE SmoothLoop(_, _, _, _)
\* for d in deltas[period:], in order: i is the 1-based index of the next delta.
\* Each pass assigns the two averages before the next one starts; comparing
\* avg makes TLC compute it at each pass too, rather than leave the passes
\* nested unevaluated inside one another until the end.
SmoothLoop(avg, deltas, i, period) ==
    IF i > Len(deltas) \/ avg = <<>> THEN avg
    ELSE SmoothLoop(SmoothStep(avg, deltas[i], period), deltas, i + 1, period)

\* a conversion without the flat-market case
RsiFromAveragesNoFlat(avg_gain, avg_loss) ==
    IF avg_loss = Zero THEN Float(100)
    ELSE IF avg_gain = Zero THEN Zero
    ELSE LET rs == RDiv(avg_gain, avg_loss)
         IN  RSub(Float(100), RDiv(Float(100), RAdd(Float(1), rs)))

\* "Convert averages to RSI"
RsiFromAverages(avg_gain, avg_loss) ==
    IF avg_loss = Zero
    THEN IF avg_gain = Zero THEN Float(50) ELSE Float(100)
    ELSE IF avg_gain = Zero THEN Zero
    ELSE LET rs == RDiv(avg_gain, avg_loss)
         IN  RSub(Float(100), RDiv(Float(100), RAdd(Float(1), rs)))

\* "Bound the value strictly to [0, 100]"
ClampRsi(rsi) ==
    IF RLt(rsi, Zero) THEN Zero
    ELSE IF RLt(Float(100), rsi) THEN Float(100)
    ELSE rsi

\* a sentinel -1.0 for "not enough data"
NeutralRsiSentinel == Float(0 - 1)

\* return 50.0 when fewer than period + 1 prices
NeutralRsi == Float(50)

\* a calculate_rsi that answers an invalid period with the neutral value
calculate_rsi_lenient(prices, period) ==
    IF period <= 0 THEN NeutralRsi
    ELSE IF Len(prices) < period + 1 THEN NeutralRsi
    ELSE LET deltas == Deltas(prices)
             avg    == SmoothLoop(SeedAverages(deltas, period), deltas,
                                  period + 1, period)
         IN  ClampRsi(RsiFromAverages(avg[1], avg[2]))

calculate_rsi(prices, period) ==
    IF period <= 0 THEN ValueError
    ELSE IF Len(prices) < period + 1 THEN NeutralRsi
    ELSE LET deltas == Deltas(prices)
             avg    == SmoothLoop(SeedAverages(deltas, period), deltas,
                                  period + 1, period)
         IN  ClampRsi(RsiFromAverages(avg[1], avg[2]))

RSI_PERIOD == 14
\* a short moving average over fewer prices than the RSI needs
MA_SHORT_BRIEF == RSI_PERIOD - 4

MA_SHORT == 20
MA_LONG == 50
RSI_OVERSOLD == 30
RSI_OVERBOUGHT == 70

\* a rule table whose thresholds are inclusive (rsi <= 30, rsi >= 70)
TrendAndDecisionInclusive(ma_short, ma_long, rsi_val) ==
    IF RLt(ma_long, ma_short)
    THEN [trend |-> "UP",
          decision |-> IF RLt(Float(RSI_OVERSOLD), rsi_val) THEN "HOLD" ELSE "BUY",
          rsi |-> rsi_val]
    ELSE IF RLt(ma_short, ma_long)
    THEN [trend |-> "DOWN",
          decision |-> IF RLt(rsi_val, Float(RSI_OVERBOUGHT)) THEN "HOLD" ELSE "SELL",
          rsi |-> rsi_val]
    ELSE [trend |-> "FLAT", decision |-> "HOLD", rsi |-> rsi_val]

\* the if / elif of determine_trend_and_decision on the three indicator values
TrendAndDecision(ma_short, ma_long, rsi_val) ==
    IF RLt(ma_long, ma_short)
    THEN [trend |-> "UP",
          decision |-> IF RLt(rsi_val, Float(RSI_OVERSOLD)) THEN "BUY" ELSE "HOLD",
          rsi |-> rsi_val]
    ELSE IF RLt(ma_short, ma_long)
    THEN [trend |-> "DOWN",
          decision |-> IF RLt(Float(RSI_OVERBOUGHT), rsi_val) THEN "SELL" ELSE "HOLD",
          rsi |-> rsi_val]
    ELSE [trend |-> "FLAT", decision |-> "HOLD", rsi |-> rsi_val]

determine_trend_and_decision(prices) ==
    TrendAndDecision(calculate_sma(prices, MA_SHORT),
                     calculate_sma(prices, MA_LONG),
                     calculate_rsi(prices, RSI_PERIOD))

(***************************************************************************)
(* models.py: SymbolState                                                  *)
(***************************************************************************)
DEFAULT_MAX_SIZE == 200

\* a deque that never evicts
DequeAppendUnbounded(items, maxlen, price) == Append(items, price)

\* a deque that, when full, drops its newest item instead of its oldest
DequeAppendDropNewest(items, maxlen, price) ==
    IF Len(items) >= maxlen
    THEN IF maxlen = 0 THEN items
         ELSE Append(SubSeq(items, 1, Len(items) - 1), price)
    ELSE Append(items, price)

\* deque(maxlen=max_size).append(price): drop the oldest item when full
DequeAppend(items, maxlen, price) ==
    IF Len(items) >= maxlen
    THEN IF maxlen = 0 THEN items ELSE Append(Tail(items), price)
    ELSE Append(items, price)

\* SymbolState.add_price on a state built with max_size
add_price(items, max_size, price) == DequeAppend(items, max_size, price)

\* a SymbolState whose signal fields start unset
InitialSignalUnset == [trend |-> "NONE", decision |-> "NONE", rsi |-> <<1, 0>>]

\* SymbolState.__init__: the published signal before any tick
InitialSignal == [trend |-> "FLAT", decision |-> "HOLD", rsi |-> Float(50)]

(***************************************************************************)
(* backtest_runner.py: SMACrossoverBacktester.  Prices are in ticks of     *)
(* tick_size, quantities in units, cash in 1/10000 of a tick so that a fee *)
(* of fee_bps basis points of the notional is an exact integer.            *)
(***************************************************************************)
\* Optional[...] = None, for fields whose values are positive integers
None == 0 - 1

\* what _sma returns for a buffer shorter than the period
NoSma == <<0, 0>>

\* fast=20, slow=50, fee_bps=1.0, tick_size (one tick), size=1.0
FAST_DEFAULT == 20
SLOW_DEFAULT == 50
FEE_BPS == 1
TICK_SIZE == 1
SIZE_DEFAULT == 1

\* fee_rate = fee_bps / 10_000.0
BPS_SCALE == 10000

\* __init__, for 0 < fast < slow
SMACrossoverBacktester(fast, slow, size) ==
    [fast         |-> fast,
     slow         |-> slow,
     size         |-> size,
     position     |-> 0,
     cash         |-> 0,
     equity_curve |-> <<>>,
     trades       |-> <<>>,
     last_close   |-> None,
     fast_buf     |-> <<>>,
     slow_buf     |-> <<>>,
     current_day  |-> None]

RECURSIVE SumTail(_, _)
\* sum(buf[-period:])
SumTail(buf, period) ==
    IF period = 0 THEN 0
    ELSE buf[Len(buf) - period + 1] + SumTail(buf, period - 1)

_sma(buf, period) ==
    IF Len(buf) < period THEN NoSma
    ELSE RDiv(Float(SumTail(buf, period)), Float(period))

\* abs(notional) * fee_rate, in 1/10000 of a tick
_apply_fee(notional) == Abs(notional) * FEE_BPS

\* ts.replace(hour=0, minute=0, second=0, microsecond=0)
Midnight(ts) == [day |-> ts.day, time |-> 0]

_exec(self, ts, side, price, qty) ==
    LET fill_price  == IF side = "BUY" THEN price + TICK_SIZE ELSE price - TICK_SIZE
        cash_change == IF side = "BUY" THEN 0 - (fill_price * qty) * BPS_SCALE
                                       ELSE (fill_price * qty) * BPS_SCALE
        fee         == _apply_fee(fill_price * qty)
    IN  [self EXCEPT
            !.position   = IF side = "BUY" THEN @ + qty ELSE @ - qty,
            !.cash       = @ + cash_change - fee,
            !.trades     = Append(@, [timestamp |-> ts, side |-> side, qty |-> qty,
                                      price |-> fill_price, fee |-> fee]),
            !.last_close = price]

\* an equity that leaves the open position out
_mark_to_market_cash_only(self, price) == self.cash

\* self.cash + self.position * price
_mark_to_market(self, price) == self.cash + (self.position * price) * BPS_SCALE

_maybe_eod_flat(self, ts, close_price) ==
    IF self.current_day = None THEN [self EXCEPT !.current_day = ts.day]
    ELSE IF ts.day # self.current_day
    THEN LET flat == IF self.position # 0 /\ self.last_close # None
                     THEN _exec(self, Midnight(ts),
                                IF self.position > 0 THEN "SELL" ELSE "BUY",
                                close_price, Abs(self.position))
                     ELSE self
         IN  [flat EXCEPT !.current_day = ts.day]
    ELSE self

\* the crossover rule with the commented-out branch enabled: a short is
\* opened when the fast average is below the slow one and nothing is held
CrossoverAllowingShort(self, ts, close) ==
    LET fast_sma == _sma(self.fast_buf, self.fast)
        slow_sma == _sma(self.slow_buf, self.slow)
    IN  IF fast_sma # NoSma /\ slow_sma # NoSma
        THEN IF self.position <= 0 /\ RLt(slow_sma, fast_sma)
             THEN _exec(self, ts, "BUY", close, self.size)
             ELSE IF self.position >= 0 /\ RLt(fast_sma, slow_sma)
             THEN IF self.position > 0
                  THEN _exec(self, ts, "SELL", close, self.position)
                  ELSE _exec(self, ts, "SELL", close, self.size)
             ELSE self
        ELSE self

\* on_bar, "Generate crossover signals"
Crossover(self, ts, close) ==
    LET fast_sma == _sma(self.fast_buf, self.fast)
        slow_sma == _sma(self.slow_buf, self.slow)
    IN  IF fast_sma # NoSma /\ slow_sma # NoSma
        THEN IF self.position <= 0 /\ RLt(slow_sma, fast_sma)
             THEN _exec(self, ts, "BUY", close, self.size)
             ELSE IF self.position >= 0 /\ RLt(fast_sma, slow_sma)
             THEN IF self.position > 0
                  THEN _exec(self, ts, "SELL", close, self.position)
                  ELSE self
             ELSE self
        ELSE self

\* on_bar(ts, close): what it leaves in the backtester
OnBar(self, ts, close) ==
    LET buffered == [self EXCEPT !.fast_buf = Append(@, close),
                                 !.slow_buf = Append(@, close)]
        flat     == _maybe_eod_flat(buffered, ts, close)
        traded   == Crossover(flat, ts, close)
    IN  [traded EXCEPT
            !.equity_curve = Append(@, <<ts, _mark_to_market(traded, close)>>),
            !.last_close   = close]

\* a finalize that writes the equity snapshot whether or not it traded
FinalizeAlwaysMarks(self, now) ==
    LET ts     == IF self.equity_curve # <<>>
                  THEN self.equity_curve[Len(self.equity_curve)][1] ELSE now
        closed == IF self.position # 0 /\ self.last_close # None
                  THEN _exec(self, ts, IF self.position > 0 THEN "SELL" ELSE "BUY",
                             self.last_close, Abs(self.position))
                  ELSE self
    IN  IF self.last_close # None
        THEN [closed EXCEPT !.equity_curve =
                 Append(@, <<ts, _mark_to_market(closed, closed.last_close)>>)]
        ELSE closed

\* finalize(); `now` is datetime.now(self.tz)
Finalize(self, now) ==
    IF self.position # 0 /\ self.last_close # None
    THEN LET ts     == IF self.equity_curve # <<>>
                       THEN self.equity_curve[Len(self.equity_curve)][1] ELSE now
             closed == _exec(self, ts, IF self.position > 0 THEN "SELL" ELSE "BUY",
                             self.last_close, Abs(self.position))
         IN  [closed EXCEPT !.equity_curve =
                 Append(@, <<ts, _mark_to_market(closed, closed.last_close)>>)]
    ELSE self

(***************************************************************************)
(* State                                                                   *)
(***************************************************************************)
VARIABLES
    symbols,    \* the list price_consumer_task passes to price_stream
    task,       \* app.state.consumer_task and the shutdown handler
    prices,     \* GLOBAL_STATE[s].prices: the rolling window of each symbol
    latest,     \* GLOBAL_STATE[s].latest_trend / latest_decision / latest_rsi
    walk,       \* price_stream's local dict prices: last price per symbol
    seed,       \* the random source: the shocks it will draw for each symbol
    drawn,      \* how many shocks it has drawn for each symbol
    cursor,     \* index in `symbols` of the next tick of the current round
    ticks,      \* number of ticks yielded so far
    resp,       \* what the last get_signal call returned
    produced,   \* history: the signals completed updates have published
    subs,       \* the websocket_endpoint coroutine of each subscriber
    cap,        \* max_size of the SymbolState under test
    win,        \* its prices deque
    pushed,     \* history: every price passed to its add_price, in order
    out,        \* the last indicator call on it and what it returned
    runs,       \* two more fresh SymbolStates, fed one price sequence
    bt,         \* the SMACrossoverBacktester under test
    bars,       \* history: every (ts, close) passed to its on_bar, in order
    call        \* history: the last call on it and the object it found

serviceVars == <<symbols, task, prices, latest, walk, seed, drawn, cursor, ticks,
                 resp, produced, subs>>

backtestVars == <<bt, bars, call>>

unitVars == <<cap, win, pushed, out, runs, backtestVars>>

vars == <<serviceVars, unitVars>>

(***************************************************************************)
(* main.py, stream_stub.py: the service                                    *)
(***************************************************************************)
SYMBOLS_TO_TRACK == <<"XYZ", "ABC", "DEF">>

Tracked == {SYMBOLS_TO_TRACK[i] : i \in 1..Len(SYMBOLS_TO_TRACK)}

\* prices in units of 0.01: base_price = 100.0, floor max(0.01, ...)
BASE_PRICE == 10000
PRICE_FLOOR == 1

\* The random source.  random.gauss / random.uniform are a deterministic
\* generator run from an unknown seed; a seed is modelled by the periodic
\* sequence of shocks (in price units) it gives one symbol.
ShockPatterns ==
    { <<0>>, <<1>>, <<0 - 1>>, <<1, 1, 1, 0 - 1>>, <<0 - 1, 0 - 1, 0 - 1, 1>> }

MaxTicks == 58

\* nothing has been called on the SymbolState under test
NoCall == [fn |-> "none"]

Runs == {1, 2}

\* SymbolState(): an empty window, nothing computed from it yet
FreshRuns == [r \in Runs |-> [win |-> <<>>, log |-> <<>>]]

\* a backtester built with the defaults and not run
IdleBacktest ==
    /\ bt = SMACrossoverBacktester(FAST_DEFAULT, SLOW_DEFAULT, SIZE_DEFAULT)
    /\ bars = <<>>
    /\ call = NoCall

IdleUnit ==
    /\ cap = DEFAULT_MAX_SIZE
    /\ win = <<>>
    /\ pushed = <<>>
    /\ out = NoCall
    /\ runs = FreshRuns
    /\ IdleBacktest

\* the clients that may open /ws/signal
Subscribers == {"w1", "w2"}

\* a client that has not connected: no websocket_endpoint coroutine yet
NotConnected ==
    [pc      |-> "idle",   \* the await the coroutine is suspended at
     name    |-> "",       \* the path parameter symbol
     open    |-> FALSE,    \* the client's end of the socket is open
     last    |-> "",       \* last_decision
     current |-> "",       \* current_decision
     inbox   |-> <<>>,     \* the messages send_json has delivered, in order
     first   |-> ""]       \* history: state.latest_decision when it was first read

NoSubscribers == [w \in Subscribers |-> NotConnected]

\* GLOBAL_STATE[sym] = SymbolState() for sym in SYMBOLS_TO_TRACK
\* startup_event has created the consumer task and it runs
Started == [consumer |-> "running", shutdown |-> "idle"]

IdleService ==
    /\ symbols = SYMBOLS_TO_TRACK
    /\ task = Started
    /\ prices = [s \in Tracked |-> <<>>]
    /\ latest = [s \in Tracked |-> InitialSignal]
    /\ walk = [s \in Tracked |-> BASE_PRICE]
    /\ drawn = [s \in Tracked |-> 0]
    /\ cursor = 1
    /\ ticks = 0
    /\ resp = [status |-> 0]
    /\ produced = [s \in Tracked |-> {}]
    /\ subs = NoSubscribers

Init ==
    /\ IdleService
    /\ seed \in [Tracked -> ShockPatterns]
    /\ IdleUnit

\* shock = random.gauss(0.0, jitter): the next shock of symbol s
NextShock(s) == seed[s][(drawn[s] % Len(seed[s])) + 1]

\* prices[s] = max(0.01, prices[s] * (1 + drift) + shock)
NextWalk(p, shock) == IF p + shock < PRICE_FLOOR THEN PRICE_FLOOR ELSE p + shock

\* a consumer that recomputes the signal before it appends the price
SignalInputStale(before, after) == before

\* determine_trend_and_decision(state.prices) is called after add_price
SignalInput(before, after) == after

\* a consumer that never assigns latest_decision
PublishTorn(old, sig) ==
    [trend |-> sig.trend, decision |-> old.decision, rsi |-> sig.rsi]

\* state.latest_trend = trend; state.latest_decision = decision;
\* state.latest_rsi = rsi
Publish(old, sig) ==
    [trend |-> sig.trend, decision |-> sig.decision, rsi |-> sig.rsi]

\* a GLOBAL_STATE whose symbols all hold one and the same SymbolState, as
\* dict.fromkeys(SYMBOLS_TO_TRACK, SymbolState()) builds it
UpdateStateShared(table, s, v) == [t \in DOMAIN table |-> v]

\* state = GLOBAL_STATE.get(tick.symbol): each symbol has a SymbolState of
\* its own, with its own deque, and the update writes to that one
UpdateState(table, s, v) == [table EXCEPT ![s] = v]

\* a consumer that looks the state up with GLOBAL_STATE[tick.symbol]: a tick
\* for a symbol without an entry raises KeyError and ends the task
ConsumeUpToKeyError(limit) ==
    /\ task.consumer = "running"
    /\ ticks < limit
    /\ LET s == symbols[cursor]
           p == NextWalk(walk[s], NextShock(s))
       IN  /\ walk' = [walk EXCEPT ![s] = p]
           /\ drawn' = [drawn EXCEPT ![s] = @ + 1]
           /\ IF s \in DOMAIN prices
              THEN LET w   == add_price(prices[s], DEFAULT_MAX_SIZE, p)
                       sig == determine_trend_and_decision(SignalInput(prices[s], w))
                   IN  /\ prices' = UpdateState(prices, s, w)
                       /\ latest' = UpdateState(latest, s, Publish(latest[s], sig))
                       /\ produced' = [produced EXCEPT ![s] = @ \cup {sig}]
                       /\ task' = task
              ELSE /\ task' = [task EXCEPT !.consumer = "failed"]
                   /\ UNCHANGED <<prices, latest, produced>>
    /\ cursor' = IF cursor = Len(symbols) THEN 1 ELSE cursor + 1
    /\ ticks' = ticks + 1
    /\ UNCHANGED <<symbols, seed, resp, subs, unitVars>>

\* price_stream yields the next tick and price_consumer_task consumes it.
\* No await separates add_price from the three assignments, so under the
\* event loop the whole loop body is one step.
ConsumeUpTo(limit) ==
    /\ task.consumer = "running"
    /\ ticks < limit
    /\ LET s == symbols[cursor]
           p == NextWalk(walk[s], NextShock(s))
       IN  /\ walk' = [walk EXCEPT ![s] = p]
           /\ drawn' = [drawn EXCEPT ![s] = @ + 1]
           /\ IF s \in DOMAIN prices
              THEN LET w   == add_price(prices[s], DEFAULT_MAX_SIZE, p)
                       sig == determine_trend_and_decision(SignalInput(prices[s], w))
                   IN  /\ prices' = UpdateState(prices, s, w)
                       /\ latest' = UpdateState(latest, s, Publish(latest[s], sig))
                       /\ produced' = [produced EXCEPT ![s] = @ \cup {sig}]
              ELSE UNCHANGED <<prices, latest, produced>>
    /\ cursor' = IF cursor = Len(symbols) THEN 1 ELSE cursor + 1
    /\ ticks' = ticks + 1
    /\ UNCHANGED <<symbols, task, seed, resp, subs, unitVars>>

ConsumeTick == ConsumeUpTo(MaxTicks)

\* symbol.upper() of the names a client sends
Upper(name) ==
    CASE name = "xyz" -> "XYZ"
      [] name = "abc" -> "ABC"
      [] name = "def" -> "DEF"
      [] name = "qqq" -> "QQQ"
      [] OTHER -> name

\* the names clients ask for: tracked ones, in either case, and one that is not
ClientNames == {"XYZ", "abc", "DEF", "qqq"}

\* a handler that looks the symbol up as the client spelled it
SignalResponseAsSpelled(name) ==
    IF name \in DOMAIN latest
    THEN [status |-> 200, symbol |-> name, trend |-> latest[name].trend,
          rsi |-> latest[name].rsi, decision |-> latest[name].decision]
    ELSE [status |-> 404, detail |-> name]

\* GET /signal
SignalResponse(name) ==
    LET sym == Upper(name) IN
    IF sym \in DOMAIN latest
    THEN [status |-> 200, symbol |-> sym, trend |-> latest[sym].trend,
          rsi |-> latest[sym].rsi, decision |-> latest[sym].decision]
    ELSE [status |-> 404, detail |-> name]

\* a handler that looks the symbol up with
\* GLOBAL_STATE.setdefault(symbol.upper(), SymbolState())
get_signal_setdefault ==
    /\ \E name \in ClientNames :
         LET sym == Upper(name)
             new == sym \notin DOMAIN latest
         IN  /\ latest' = IF new THEN latest @@ (sym :> InitialSignal) ELSE latest
             /\ prices' = IF new THEN prices @@ (sym :> <<>>) ELSE prices
             /\ resp' = [status |-> 200, symbol |-> sym, trend |-> latest'[sym].trend,
                         rsi |-> latest'[sym].rsi, decision |-> latest'[sym].decision]
    /\ UNCHANGED <<symbols, task, walk, seed, drawn, cursor, ticks, produced, subs,
                   unitVars>>

get_signal ==
    /\ \E name \in ClientNames : resp' = SignalResponse(name)
    /\ UNCHANGED <<symbols, task, prices, latest, walk, seed, drawn, cursor, ticks,
                   produced, subs, unitVars>>

Next == ConsumeTick \/ get_signal

Spec == Init /\ [][Next]_vars

(***************************************************************************)
(* main.py: /ws/signal subscribers next to the consumer.  A coroutine runs *)
(* from one await to the next as one step; its awaits are accept,          *)
(* send_json and asyncio.sleep.                                            *)
(***************************************************************************)
MaxStreamTicks == 61

\* a seed under which a symbol is quiet for RSI_PERIOD + 1 prices, falls
\* until it has MA_SHORT prices, then rebounds by the whole fall at once
Flash ==
    [i \in 1..(MA_SHORT + 1) |->
        IF i <= RSI_PERIOD + 1 THEN 0
        ELSE IF i <= MA_SHORT THEN 0 - 1
        ELSE MA_SHORT - RSI_PERIOD - 1]

\* seeds under which the decision never changes, changes once, and changes
\* and changes back one tick of the symbol later
StreamPatterns == { <<0>>, <<0 - 1>>, Flash }

\* the names subscribers ask for
StreamNames == {"xyz", "qqq"}

InitStream ==
    /\ IdleService
    /\ seed \in { f \in [Tracked -> StreamPatterns] :
                     \A s \in Tracked : s # "XYZ" => f[s] = <<0>> }
    /\ IdleUnit

\* the consumer, for as long as the stream is observed
StreamTick == ConsumeUpTo(MaxStreamTicks)

\* {"symbol": symbol.upper(), "decision": decision}
Message(name, decision) == [symbol |-> Upper(name), decision |-> decision]

\* a handler that sends the default decision as its snapshot
InitialDecisionDefault(decision) == InitialSignal.decision

\* the decision in the initial snapshot: last_decision
InitialDecision(decision) == decision

\* a handler that does not record what it sent
AfterSendKeep(last_decision, current_decision) == last_decision

\* last_decision = current_decision
AfterSend(last_decision, current_decision) == current_decision

\* a client opens /ws/signal/{name}; the handler awaits websocket.accept()
Connect(w) ==
    /\ subs[w].pc = "idle"
    /\ \E name \in StreamNames :
         subs' = [subs EXCEPT ![w] = [@ EXCEPT !.pc = "accept", !.name = name,
                                                !.open = TRUE]]
    /\ UNCHANGED <<symbols, task, prices, latest, walk, seed, drawn, cursor, ticks,
                   resp, produced, unitVars>>

\* accept() returns: state = GLOBAL_STATE.get(symbol.upper()); an untracked
\* symbol closes the socket and returns; else last_decision is read and the
\* handler awaits the send of the initial snapshot
Accept(w) ==
    /\ subs[w].pc = "accept"
    /\ LET sym == Upper(subs[w].name) IN
       IF sym \in DOMAIN latest
       THEN subs' = [subs EXCEPT ![w] =
                [@ EXCEPT !.pc = "send_initial",
                          !.last = latest[sym].decision,
                          !.current = InitialDecision(latest[sym].decision),
                          !.first = latest[sym].decision]]
       ELSE subs' = [subs EXCEPT ![w] = [@ EXCEPT !.pc = "done", !.open = FALSE]]
    /\ UNCHANGED <<symbols, task, prices, latest, walk, seed, drawn, cursor, ticks,
                   resp, produced, unitVars>>

\* a loop that compares current_decision with itself
PollBlind(sub) ==
    [sub EXCEPT !.current = latest[Upper(sub.name)].decision, !.pc = "sleep"]

\* current_decision = state.latest_decision; if it differs from
\* last_decision the handler awaits a send, else it awaits the sleep
Poll(sub) ==
    LET now == latest[Upper(sub.name)].decision IN
    [sub EXCEPT !.current = now,
                !.pc = IF now # sub.last THEN "send_change" ELSE "sleep"]

\* send_json returns.  To a client that is gone it raises, and the handler
\* leaves through finally.  Else the message is delivered; after the
\* snapshot the loop is entered, after a change last_decision is updated
\* and the handler sleeps.
SendDone(w) ==
    /\ subs[w].pc \in {"send_initial", "send_change"}
    /\ LET sub  == subs[w]
           sent == [sub EXCEPT !.inbox = Append(@, Message(sub.name, sub.current))]
       IN  subs' = [subs EXCEPT ![w] =
                IF ~sub.open THEN [sub EXCEPT !.pc = "done"]
                ELSE IF sub.pc = "send_initial" THEN Poll(sent)
                ELSE [sent EXCEPT !.last = AfterSend(sub.last, sub.current),
                                  !.pc = "sleep"]]
    /\ UNCHANGED <<symbols, task, prices, latest, walk, seed, drawn, cursor, ticks,
                   resp, produced, unitVars>>

\* a loop that assigns where it should compare:
\* state.latest_decision = last_decision
WakeWriting(w) ==
    /\ subs[w].pc = "sleep"
    /\ latest' = [latest EXCEPT ![Upper(subs[w].name)].decision = subs[w].last]
    /\ UNCHANGED <<symbols, task, prices, walk, seed, drawn, cursor, ticks, resp,
                   produced, subs, unitVars>>

\* asyncio.sleep(0.1) returns: the next iteration of the loop
Wake(w) ==
    /\ subs[w].pc = "sleep"
    /\ subs' = [subs EXCEPT ![w] = Poll(@)]
    /\ UNCHANGED <<symbols, task, prices, latest, walk, seed, drawn, cursor, ticks,
                   resp, produced, unitVars>>

\* the client goes away; the handler is not told and is not resumed
Disconnect(w) ==
    /\ subs[w].pc \in {"send_initial", "send_change", "sleep"}
    /\ subs[w].open
    /\ subs' = [subs EXCEPT ![w] = [@ EXCEPT !.open = FALSE]]
    /\ UNCHANGED <<symbols, task, prices, latest, walk, seed, drawn, cursor, ticks,
                   resp, produced, unitVars>>

\* a cancellation that is delivered to every handler
CancelAll(w) ==
    /\ subs[w].pc \in {"accept", "send_initial", "send_change", "sleep"}
    /\ subs' = [v \in Subscribers |->
                    IF subs[v].pc = "idle" THEN subs[v]
                    ELSE [subs[v] EXCEPT !.pc = "done", !.open = FALSE]]
    /\ UNCHANGED <<symbols, task, prices, latest, walk, seed, drawn, cursor, ticks,
                   resp, produced, unitVars>>

\* the handler's task is cancelled at its await: CancelledError passes both
\* except clauses, finally closes the socket
Cancel(w) ==
    /\ subs[w].pc \in {"accept", "send_initial", "send_change", "sleep"}
    /\ subs' = [subs EXCEPT ![w] = [@ EXCEPT !.pc = "done", !.open = FALSE]]
    /\ UNCHANGED <<symbols, task, prices, latest, walk, seed, drawn, cursor, ticks,
                   resp, produced, unitVars>>

Subscriber(w) ==
    Connect(w) \/ Accept(w) \/ SendDone(w) \/ Wake(w) \/ Disconnect(w) \/ Cancel(w)

NextStream == StreamTick \/ \E w \in Subscribers : Subscriber(w)

SpecStream == InitStream /\ [][NextStream]_vars

\* The whole service: the consumer, GET /signal and a /ws/signal subscriber,
\* each asked for tracked and untracked symbols.  price_consumer_task takes
\* the list of symbols to stream; besides the list main.py passes, one that
\* holds a symbol GLOBAL_STATE has no entry for.
FeedLists == { SYMBOLS_TO_TRACK, <<"XYZ", "ABC", "QQQ">> }

Streamed(list) == {list[i] : i \in 1..Len(list)}

InitService ==
    /\ symbols \in FeedLists
    /\ task = Started
    /\ prices = [s \in Tracked |-> <<>>]
    /\ latest = [s \in Tracked |-> InitialSignal]
    /\ walk = [s \in Streamed(symbols) |-> BASE_PRICE]
    /\ seed \in { f \in [Streamed(symbols) -> StreamPatterns] :
                     \A s \in Streamed(symbols) : s # "XYZ" => f[s] = <<0>> }
    /\ drawn = [s \in Streamed(symbols) |-> 0]
    /\ cursor = 1
    /\ ticks = 0
    /\ resp = [status |-> 0]
    /\ produced = [s \in Tracked |-> {}]
    /\ subs = NoSubscribers
    /\ IdleUnit

NextService == StreamTick \/ get_signal \/ Subscriber("w1")

SpecService == InitService /\ [][NextService]_vars

\* The consumer over a short stretch of the stream, next to subscribers in
\* every state.
MaxFairTicks == 4

\* a consumer that, before it takes the next tick, waits until no send to a
\* subscriber is outstanding
IngestTickAwaitingSends ==
    /\ \A w \in Subscribers : subs[w].pc \notin {"send_initial", "send_change"}
    /\ ConsumeUpTo(MaxFairTicks)

IngestTick == ConsumeUpTo(MaxFairTicks)

NextIngest == IngestTick \/ \E w \in Subscribers : Subscriber(w)

\* Fair scheduling of the consumer: price_stream yields its next tick after
\* a sleep, and the event loop resumes the consumer task when it does.
\* Nothing is assumed of the handlers or their clients.
SpecIngestFair == InitStream /\ [][NextIngest]_vars /\ WF_vars(IngestTick)

\* Fair scheduling of the handlers: the event loop resumes a handler whose
\* await has completed, and accept, the sleep, and a send to a client that
\* keeps reading do complete.  Nothing is assumed of the tick source, and
\* clients need not connect, and may leave or be cancelled, at any time.
SpecStreamFair ==
    /\ SpecStream
    /\ \A w \in Subscribers :
          WF_vars(Accept(w)) /\ WF_vars(SendDone(w)) /\ WF_vars(Wake(w))

(***************************************************************************)
(* Shutdown.  price_stream awaits only asyncio.sleep, after it has yielded *)
(* a tick for every symbol, and the consumer awaits nothing else: the      *)
(* consumer task is suspended between two rounds of ticks and nowhere      *)
(* else, and that is where another coroutine runs and where a              *)
(* CancelledError is thrown into it.  The event loop runs the task's first *)
(* round before a shutdown can be delivered, since the server awaits       *)
(* between the startup and the shutdown event.                             *)
(***************************************************************************)
\* the consumer task is suspended at price_stream's asyncio.sleep
ConsumerSleeps == cursor = 1 /\ ticks >= Len(symbols)

\* app.state.consumer_task.cancel(), then `await app.state.consumer_task`
\* suspends shutdown_event until the task is done
shutdown_event ==
    /\ task = Started
    /\ ConsumerSleeps
    /\ task' = [consumer |-> "cancelling", shutdown |-> "awaiting"]
    /\ UNCHANGED <<symbols, prices, latest, walk, seed, drawn, cursor, ticks, resp,
                   produced, subs, unitVars>>

\* a consumer without the except clause: the CancelledError leaves the
\* coroutine and the task ends cancelled
ConsumerCancelledUncaught ==
    /\ task.consumer = "cancelling"
    /\ task' = [task EXCEPT !.consumer = "cancelled"]
    /\ UNCHANGED <<symbols, prices, latest, walk, seed, drawn, cursor, ticks, resp,
                   produced, subs, unitVars>>

\* the event loop resumes the consumer with CancelledError raised at the
\* sleep; `except asyncio.CancelledError` catches it, prints, and the
\* coroutine returns
ConsumerCancelled ==
    /\ task.consumer = "cancelling"
    /\ task' = [task EXCEPT !.consumer = "done"]
    /\ UNCHANGED <<symbols, prices, latest, walk, seed, drawn, cursor, ticks, resp,
                   produced, subs, unitVars>>

\* `await app.state.consumer_task` resumes: it returns the result of a task
\* that returned, and raises the exception of one that ended cancelled or
\* failed
ShutdownResumes ==
    /\ task.shutdown = "awaiting"
    /\ task.consumer \in {"done", "cancelled", "failed"}
    /\ task' = [task EXCEPT !.shutdown =
                    IF task.consumer = "done" THEN "done" ELSE "raised"]
    /\ UNCHANGED <<symbols, prices, latest, walk, seed, drawn, cursor, ticks, resp,
                   produced, subs, unitVars>>

NextShutdown ==
    \/ StreamTick
    \/ get_signal
    \/ shutdown_event
    \/ ConsumerCancelled
    \/ ShutdownResumes

\* The event loop runs a task that is ready: the cancelled consumer, and
\* shutdown_event once the task it awaits is done.  Nothing is assumed of
\* the tick source or of when the server is shut down.
SpecShutdown ==
    /\ InitStream
    /\ [][NextShutdown]_vars
    /\ WF_vars(ConsumerCancelled)
    /\ WF_vars(ShutdownResumes)

(***************************************************************************)
(* A SymbolState and the indicator functions called directly, as the unit  *)
(* tests do: a small window filled price by price.                         *)
(***************************************************************************)
MaxCap == 4
MaxPush == 4
MaxPeriod == 3

PriceChoices == {1, 2, 3}

\* the periods passed to calculate_sma / calculate_rsi; 0 and -1 are invalid
Periods == (0 - 1)..MaxPeriod

\* the service is not running
ServiceOff ==
    /\ IdleService
    /\ seed = [s \in Tracked |-> <<0>>]

\* SymbolState(max_size = c)
InitWindow ==
    /\ ServiceOff
    /\ cap \in 1..MaxCap
    /\ win = <<>>
    /\ pushed = <<>>
    /\ out = NoCall
    /\ runs = FreshRuns
    /\ IdleBacktest

\* state.add_price(p)
PushPrice ==
    /\ Len(pushed) < MaxPush
    /\ \E p \in PriceChoices :
         /\ win' = add_price(win, cap, p)
         /\ pushed' = Append(pushed, p)
    /\ out' = NoCall
    /\ UNCHANGED <<cap, runs, serviceVars, backtestVars>>

\* calculate_sma(state.prices, k)
CallSma ==
    /\ \E k \in Periods :
         out' = [fn |-> "sma", period |-> k, value |-> calculate_sma(win, k)]
    /\ UNCHANGED <<cap, win, pushed, runs, serviceVars, backtestVars>>

\* calculate_rsi(state.prices, k)
CallRsi ==
    /\ \E k \in Periods :
         out' = [fn |-> "rsi", period |-> k, value |-> calculate_rsi(win, k)]
    /\ UNCHANGED <<cap, win, pushed, runs, serviceVars, backtestVars>>

NextWindow == PushPrice \/ CallSma \/ CallRsi

SpecWindow == InitWindow /\ [][NextWindow]_vars

(***************************************************************************)
(* determine_trend_and_decision called directly on windows long enough for *)
(* RSI(14) and the MA(20/50) rule: piecewise-linear price paths of up to   *)
(* three segments, the price list of the unit test, and quiet windows of   *)
(* MA_LONG prices and more that move only in their last five ticks.        *)
(***************************************************************************)
MaxStep == 1

Slopes == (0 - MaxStep)..MaxStep

\* n prices leaving p0 with a constant step
Seg(p0, slope, n) == [i \in 1..n |-> p0 + slope * i]

Shape(p0, s1, n1, s2, n2, s3, n3) ==
    <<p0>> \o Seg(p0, s1, n1) \o Seg(p0 + s1 * n1, s2, n2)
           \o Seg(p0 + s1 * n1 + s2 * n2, s3, n3)

\* every path of n >= 1 prices from BASE_PRICE with at most three segments
ShapesOfLength(n) ==
    UNION { UNION { { Shape(BASE_PRICE, s1, n1, s2, n2, s3, n - 1 - n1 - n2) :
                        s1 \in Slopes, s2 \in Slopes, s3 \in Slopes } :
                    n2 \in 0..(n - 1 - n1) } :
            n1 \in 0..(n - 1) }

DecideLengths ==
    {1, RSI_PERIOD, RSI_PERIOD + 1, RSI_PERIOD + 2, MA_SHORT - 1, MA_SHORT}

\* the prices of test_rsi_mixed_sequence_matches_manual_calc
TestMixed == <<44, 44, 45, 43, 44, 45, 44, 46, 45, 47, 46, 46, 47, 46, 48>>

\* MA_LONG or MA_LONG + 1 prices: flat, then a path of five moves
LongShapes ==
    { [i \in 1..m |-> BASE_PRICE] \o t :
        m \in {MA_LONG - 6, MA_LONG - 5}, t \in ShapesOfLength(6) }

DecideInputs ==
    {<<>>, TestMixed} \cup UNION { ShapesOfLength(n) : n \in DecideLengths }
                      \cup LongShapes

InitDecide ==
    /\ ServiceOff
    /\ cap = DEFAULT_MAX_SIZE
    /\ win \in DecideInputs
    /\ pushed = win
    /\ out = NoCall
    /\ runs = FreshRuns
    /\ IdleBacktest

\* determine_trend_and_decision(state.prices)
CallDecide ==
    /\ out = NoCall
    /\ out' = [fn |-> "decide", value |-> determine_trend_and_decision(win)]
    /\ UNCHANGED <<cap, win, pushed, runs, serviceVars, backtestVars>>

NextDecide == CallDecide

SpecDecide == InitDecide /\ [][NextDecide]_vars

(***************************************************************************)
(* Two fresh SymbolStates fed the same price sequence, each recomputing    *)
(* the indicators and the signal after every price.  The sequence is       *)
(* `pushed`; each run consumes it at its own pace, so the calls of the two *)
(* runs interleave in every order.                                         *)
(***************************************************************************)
\* the periods the replay evaluates after every price
ReplayPeriods == 1..MaxPeriod

\* indicator functions that keep the last call's results in a module-level
\* memo keyed by the newest price
RecomputeMemo(window) ==
    IF out.fn = "replay" /\ out.key = window[Len(window)]
    THEN out.value
    ELSE [sma    |-> [k \in ReplayPeriods |-> calculate_sma(window, k)],
          rsi    |-> [k \in ReplayPeriods |-> calculate_rsi(window, k)],
          signal |-> determine_trend_and_decision(window)]

\* calculate_sma, calculate_rsi and determine_trend_and_decision of a window
Recompute(window) ==
    [sma    |-> [k \in ReplayPeriods |-> calculate_sma(window, k)],
     rsi    |-> [k \in ReplayPeriods |-> calculate_rsi(window, k)],
     signal |-> determine_trend_and_decision(window)]

InitReplay ==
    /\ ServiceOff
    /\ cap \in 1..MaxCap
    /\ win = <<>>
    /\ pushed = <<>>
    /\ out = NoCall
    /\ runs = FreshRuns
    /\ IdleBacktest

\* the next price of the sequence becomes known
Feed ==
    /\ Len(pushed) < MaxPush
    /\ \E p \in PriceChoices : pushed' = Append(pushed, p)
    /\ UNCHANGED <<cap, win, out, runs, serviceVars, backtestVars>>

\* run r: state.add_price(p) for its next price, then the indicator calls
Replay(r) ==
    /\ Len(runs[r].log) < Len(pushed)
    /\ LET p   == pushed[Len(runs[r].log) + 1]
           w   == add_price(runs[r].win, cap, p)
           res == Recompute(w)
       IN  /\ runs' = [runs EXCEPT ![r] = [win |-> w, log |-> Append(@.log, res)]]
           /\ out' = [fn |-> "replay", key |-> p, value |-> res]
    /\ UNCHANGED <<cap, win, pushed, serviceVars, backtestVars>>

NextReplay == Feed \/ \E r \in Runs : Replay(r)

SpecReplay == InitReplay /\ [][NextReplay]_vars

(***************************************************************************)
(* A SMACrossoverBacktester called directly: bars arrive in ascending time *)
(* order, as read_ohlcv_csv sorts them, each on the day of the bar before  *)
(* or on the next day, and finalize may be called at any point and more    *)
(* than once.                                                              *)
(***************************************************************************)
MaxBars == 5
MaxSlow == 3

\* closing prices, in ticks
Closes == {5, 7}

Sizes == {1, 2}

\* datetime.now(self.tz), read by finalize only while the equity curve is empty
Now == [day |-> 0, time |-> 0]

\* no SymbolState is under test
WindowOff ==
    /\ cap = DEFAULT_MAX_SIZE
    /\ win = <<>>
    /\ pushed = <<>>
    /\ out = NoCall
    /\ runs = FreshRuns

\* SMACrossoverBacktester(fast, slow, size=size) with 0 < fast < slow
InitBacktest ==
    /\ ServiceOff
    /\ WindowOff
    /\ \E fast \in 1..MaxSlow, slow \in 1..MaxSlow, size \in Sizes :
          /\ fast < slow
          /\ bt = SMACrossoverBacktester(fast, slow, size)
    /\ bars = <<>>
    /\ call = NoCall

\* bt.on_bar(ts, close)
on_bar ==
    /\ Len(bars) < MaxBars
    /\ \E close \in Closes, later \in {0, 1} :
          LET day == IF bars = <<>> THEN 1 ELSE bars[Len(bars)].ts.day + later
              ts  == [day |-> day, time |-> Len(bars) + 1]
          IN  /\ bt' = OnBar(bt, ts, close)
              /\ bars' = Append(bars, [ts |-> ts, close |-> close])
              /\ call' = [fn |-> "on_bar", before |-> bt, ts |-> ts, close |-> close]
    /\ UNCHANGED <<cap, win, pushed, out, runs, serviceVars>>

\* bt.finalize()
finalize ==
    /\ bt' = Finalize(bt, Now)
    /\ call' = [fn |-> "finalize", before |-> bt]
    /\ UNCHANGED <<bars, cap, win, pushed, out, runs, serviceVars>>

NextBacktest == on_bar \/ finalize

SpecBacktest == InitBacktest /\ [][NextBacktest]_vars

(***************************************************************************)
(* Properties of the service                                               *)
(***************************************************************************)
\* the (trend, decision, rsi) a successful get_signal returned
RespSignal == [trend |-> resp.trend, decision |-> resp.decision, rsi |-> resp.rsi]

\* C1: every (trend, decision, rsi) a reader obtains was produced whole by
\* one completed update of that symbol, or is the initial default; no reader
\* sees fields of two different updates.
C1_ReadsAreWholeUpdates ==
    /\ resp.status = 200 =>
         RespSignal \in produced[resp.symbol] \cup {InitialSignal}
    /\ \A s \in Tracked : latest[s] \in produced[s] \cup {InitialSignal}

\* a reader obtained a signal that differs from the default in every field
C1_Witness ==
    /\ resp.status = 200
    /\ resp.trend = "UP" /\ resp.decision = "BUY" /\ resp.rsi # Float(50)
    /\ Cardinality(produced[resp.symbol]) > 1

\* C2: in every state each tracked symbol's published signal is
\* determine_trend_and_decision of its current window, the initial state
\* (empty window, FLAT / HOLD / 50) included.
C2_SignalMatchesWindow ==
    \A s \in Tracked : latest[s] = determine_trend_and_decision(prices[s])

\* a symbol with a full short average publishing SELL on a two-sided RSI
C2_Witness ==
    \E s \in Tracked :
        /\ Len(prices[s]) = MA_SHORT
        /\ latest[s].decision = "SELL"
        /\ RLt(Float(RSI_OVERBOUGHT), latest[s].rsi)
        /\ RLt(latest[s].rsi, Float(100))

(***************************************************************************)
(* Properties of the rolling window                                        *)
(***************************************************************************)
\* C3: after any sequence of add_price calls the number of prices held
\* never exceeds the window capacity max_size.
C3_SizeWithinCapacity == Len(win) <= cap

\* more prices were pushed than the window holds
C3_Witness == Len(pushed) > cap /\ Len(win) = cap /\ cap > 1

Min(a, b) == IF a < b THEN a ELSE b

\* the last k items of a sequence, in order
LastK(seq, k) == SubSeq(seq, Len(seq) - k + 1, Len(seq))

\* C4: after pushing p1..pn into a window of capacity c the window holds
\* exactly the last min(n, c) pushed prices in push order.
C4_HoldsLastPushed == win = LastK(pushed, Min(Len(pushed), cap))

\* a push on a full window of three evicted the oldest price only
C4_Witness == cap = 3 /\ pushed = <<1, 2, 3, 2>> /\ win = <<2, 3, 2>>

(***************************************************************************)
(* Properties of calculate_sma                                             *)
(***************************************************************************)
RECURSIVE TotalOf(_)
TotalOf(seq) == IF seq = <<>> THEN 0 ELSE Head(seq) + TotalOf(Tail(seq))

\* the value out.value of a call of fn with a valid period
Called(fn) == out.fn = fn /\ out.period > 0

\* C5: for a window of at least k prices (k > 0) calculate_sma(window, k) is
\* the arithmetic mean of exactly the last k pushed prices, whatever was
\* pushed or evicted before them.
C5_SmaIsMeanOfLastK ==
    (Called("sma") /\ Len(win) >= out.period) =>
        /\ Len(pushed) >= out.period
        /\ out.value = Norm(TotalOf(LastK(pushed, out.period)), out.period)

\* the mean of the last two prices after a larger price was evicted
C5_Witness ==
    /\ Called("sma") /\ out.period = 2
    /\ cap = 2 /\ pushed = <<3, 1, 2>>
    /\ out.value = <<3, 2>>

\* C6: calculate_sma(window, k) with 0 < |window| < k returns the most
\* recently pushed price, and with an empty window returns 0.0.
C6_SmaInsufficientData ==
    Called("sma") =>
        /\ Len(win) = 0 => out.value = Float(0)
        /\ (0 < Len(win) /\ Len(win) < out.period) =>
              out.value = Float(pushed[Len(pushed)])

\* two prices held, three asked for: the last pushed price comes back
C6_Witness ==
    /\ Called("sma") /\ out.period = 3
    /\ pushed = <<2, 1, 3>> /\ win = <<1, 3>>
    /\ out.value = Float(3)

(***************************************************************************)
(* Properties of calculate_rsi                                             *)
(***************************************************************************)
RECURSIVE Pow(_, _)
Pow(b, e) == IF e = 0 THEN 1 ELSE b * Pow(b, e - 1)

\* upward and downward part of the i-th move of a price list
UpMove(w, i) == IF w[i + 1] > w[i] THEN w[i + 1] - w[i] ELSE 0
DownMove(w, i) == IF w[i + 1] < w[i] THEN w[i] - w[i + 1] ELSE 0

RECURSIVE SumUp(_, _, _)
SumUp(w, lo, hi) == IF lo > hi THEN 0 ELSE UpMove(w, lo) + SumUp(w, lo + 1, hi)

RECURSIVE SumDown(_, _, _)
SumDown(w, lo, hi) == IF lo > hi THEN 0 ELSE DownMove(w, lo) + SumDown(w, lo + 1, hi)

RECURSIVE WilderUp(_, _, _)
\* p^(j-p+1) times Wilder's average gain after j >= p moves
WilderUp(w, p, j) ==
    IF j = p THEN SumUp(w, 1, p)
    ELSE (p - 1) * WilderUp(w, p, j - 1) + UpMove(w, j) * Pow(p, j - p)

RECURSIVE WilderDown(_, _, _)
\* p^(j-p+1) times Wilder's average loss after j >= p moves
WilderDown(w, p, j) ==
    IF j = p THEN SumDown(w, 1, p)
    ELSE (p - 1) * WilderDown(w, p, j - 1) + DownMove(w, j) * Pow(p, j - p)

\* the final rule on two averages given over a common denominator
FinalRule(g, l) ==
    IF l = 0 THEN (IF g = 0 THEN Float(50) ELSE Float(100))
    ELSE IF g = 0 THEN Float(0)
    ELSE Norm(100 * g, g + l)

\* the reference Wilder RSI of a price list w with period p, over all moves
WilderReference(w, p) ==
    FinalRule(WilderUp(w, p, Len(w) - 1), WilderDown(w, p, Len(w) - 1))

\* C7: for a window of at least period + 1 prices calculate_rsi is the
\* reference Wilder computation over all deltas of the window (seed = simple
\* mean over the oldest `period` deltas, then one smoothing step per later
\* delta in order, then the final rule); with exactly period + 1 prices it
\* is 100 - 100 / (1 + sumGains / sumLosses), and the 15-price scenario
\* gives a value strictly between 50 and 100.  Checked for period 14 on
\* windows of up to MA_SHORT prices.
C7_RsiIsWilder ==
    (out.fn = "decide" /\ Len(win) >= RSI_PERIOD + 1 /\ Len(win) <= MA_SHORT) =>
        /\ out.value.rsi = WilderReference(win, RSI_PERIOD)
        /\ (/\ Len(win) = RSI_PERIOD + 1
            /\ SumUp(win, 1, RSI_PERIOD) > 0
            /\ SumDown(win, 1, RSI_PERIOD) > 0) =>
              out.value.rsi =
                RSub(Float(100),
                     RDiv(Float(100),
                          RAdd(Float(1), Norm(SumUp(win, 1, RSI_PERIOD),
                                              SumDown(win, 1, RSI_PERIOD)))))
        /\ win = TestMixed =>
              RLt(Float(50), out.value.rsi) /\ RLt(out.value.rsi, Float(100))

\* a two-sided window whose averages were smoothed five times
C7_Witness ==
    /\ out.fn = "decide"
    /\ Len(win) = MA_SHORT
    /\ RLt(Zero, out.value.rsi) /\ RLt(out.value.rsi, Float(50))
    /\ win[2] > win[1] /\ win[MA_SHORT] < win[MA_SHORT - 1]

IsConstant(w) == \A i \in 1..(Len(w) - 1) : w[i + 1] = w[i]

IsIncreasing(w) == \A i \in 1..(Len(w) - 1) : w[i + 1] > w[i]

\* C8: calculate_rsi returns exactly 50.0 for a window shorter than
\* period + 1 and for a constant series of at least period + 1 prices, and
\* exactly 100.0 for a strictly increasing series of at least period + 1.
C8_RsiNeutralCases ==
    Called("rsi") =>
        /\ Len(win) < out.period + 1 => out.value = Float(50)
        /\ (Len(win) >= out.period + 1 /\ IsConstant(win)) => out.value = Float(50)
        /\ (Len(win) >= out.period + 1 /\ IsIncreasing(win)) => out.value = Float(100)

\* a strictly increasing window one longer than period + 1
C8_Witness ==
    /\ Called("rsi") /\ out.period = 1
    /\ win = <<1, 2, 3>>
    /\ out.value = Float(100)

\* C9: for every window and every period > 0 calculate_rsi returns r with
\* 0 <= r <= 100.
C9_RsiWithinBounds ==
    Called("rsi") =>
        /\ ~RLt(out.value, Float(0))
        /\ ~RLt(Float(100), out.value)

\* an RSI strictly inside (50, 100) computed from gains and losses
C9_Witness ==
    /\ Called("rsi") /\ out.period = 2
    /\ RLt(Float(50), out.value) /\ RLt(out.value, Float(100))

(***************************************************************************)
(* Properties of determine_trend_and_decision                              *)
(***************************************************************************)
\* C10: determine_trend_and_decision returns the rule table's (trend,
\* decision) on sma20 = sma(20), sma50 = sma(50), rsi = rsi(14): above gives
\* UP with BUY iff rsi < 30, below gives DOWN with SELL iff rsi > 70, equal
\* gives (FLAT, HOLD); rsi = 30 in an uptrend and rsi = 70 in a downtrend
\* give HOLD.
C10_RuleTable ==
    out.fn = "decide" =>
        LET sma20 == calculate_sma(win, MA_SHORT)
            sma50 == calculate_sma(win, MA_LONG)
            rsi   == calculate_rsi(win, RSI_PERIOD)
            trend == out.value.trend
            dec   == out.value.decision
        IN  /\ out.value.rsi = rsi
            /\ (RLt(sma50, sma20) /\ RLt(rsi, Float(30))) =>
                  (trend = "UP" /\ dec = "BUY")
            /\ (RLt(sma50, sma20) /\ ~RLt(rsi, Float(30))) =>
                  (trend = "UP" /\ dec = "HOLD")
            /\ (RLt(sma20, sma50) /\ RLt(Float(70), rsi)) =>
                  (trend = "DOWN" /\ dec = "SELL")
            /\ (RLt(sma20, sma50) /\ ~RLt(Float(70), rsi)) =>
                  (trend = "DOWN" /\ dec = "HOLD")
            /\ sma20 = sma50 => (trend = "FLAT" /\ dec = "HOLD")

\* an uptrend with rsi exactly 30: HOLD, not BUY
C10_Witness ==
    /\ out.fn = "decide"
    /\ out.value = [trend |-> "UP", decision |-> "HOLD", rsi |-> Float(30)]

Histories(n) == UNION { [1..k -> PriceChoices] : k \in 0..n }

RECURSIVE ReplayAll(_, _)
\* the window of a fresh SymbolState(max_size = c) after add_price of each
\* price of history h in turn
ReplayAll(h, c) ==
    IF h = <<>> THEN <<>>
    ELSE add_price(ReplayAll(SubSeq(h, 1, Len(h) - 1), c), c, h[Len(h)])

\* C12: an evicted price has no influence on later results.  Once the window
\* is full, every other history that ends with the same last `capacity`
\* prices, whatever older prices it had, leaves a window on which the SMA
\* and RSI just returned, and the signal an update would publish, are the
\* same.
C12_EvictedHasNoInfluence ==
    Len(pushed) >= cap =>
        \A older \in Histories(MaxPush - cap) :
            LET alt == ReplayAll(older \o LastK(pushed, cap), cap)
            IN  /\ Called("sma") => out.value = calculate_sma(alt, out.period)
                /\ Called("rsi") => out.value = calculate_rsi(alt, out.period)
                /\ determine_trend_and_decision(alt)
                     = determine_trend_and_decision(win)

\* a price no longer in the window was evicted, and an RSI that depends on
\* the prices was then computed
C12_Witness ==
    /\ Len(pushed) > cap
    /\ \A i \in 1..Len(win) : win[i] # pushed[1]
    /\ Called("rsi")
    /\ out.period = cap - 1
    /\ out.value # NeutralRsi

(***************************************************************************)
(* Properties of the /ws/signal subscribers                                *)
(***************************************************************************)
\* the decisions published so far for the symbol a subscriber asked for
PublishedDecisions(sub) ==
    {InitialSignal.decision} \cup {sig.decision : sig \in produced[Upper(sub.name)]}

\* C13: the first message sent to a subscriber of a tracked symbol is the
\* decision the symbol had when the handler looked it up on connect; it has
\* been delivered before the handler ever sleeps or sends a change; and for
\* a symbol with no tick ingested it is the default HOLD.
C13_FirstMessageIsCurrent ==
    \A w \in Subscribers :
        LET sub == subs[w] IN
        /\ sub.pc \in {"sleep", "send_change"} => sub.inbox # <<>>
        /\ sub.inbox # <<>> =>
              /\ sub.inbox[1] = Message(sub.name, sub.first)
              /\ sub.inbox[1].decision \in PublishedDecisions(sub)
              /\ prices[Upper(sub.name)] = <<>> => sub.inbox[1].decision = "HOLD"

\* before any tick a subscriber has its snapshot, HOLD, and sleeps
C13_Witness ==
    /\ ticks = 0
    /\ subs["w1"].pc = "sleep"
    /\ subs["w1"].inbox = << [symbol |-> "XYZ", decision |-> "HOLD"] >>

\* C14: every message sent to a subscriber carries a decision different from
\* the one in the message sent to it just before, and once the subscriber
\* has disconnected no further message is sent to it.
C14_MessagesOnlyOnChange ==
    /\ [](\A w \in Subscribers :
            \A i \in 1..(Len(subs[w].inbox) - 1) :
                subs[w].inbox[i].decision # subs[w].inbox[i + 1].decision)
    /\ [][\A w \in Subscribers :
            (subs[w].pc # "idle" /\ ~subs[w].open) =>
                subs'[w].inbox = subs[w].inbox]_vars

\* one subscriber was sent HOLD, BUY, HOLD; the other left after its
\* snapshot and the send of the change to it failed
C14_Witness ==
    /\ Len(subs["w1"].inbox) = 3
    /\ subs["w1"].inbox[2].decision = "BUY"
    /\ subs["w2"].pc = "done"
    /\ subs["w2"].current = "BUY"
    /\ Len(subs["w2"].inbox) = 1

Decisions == {"BUY", "SELL", "HOLD"}

\* subscriber w has its snapshot and its client is there
Listening(w) == subs[w].open /\ subs[w].inbox # <<>>

\* the decision in the last message delivered to subscriber w
LastDelivered(w) ==
    IF subs[w].inbox = <<>> THEN "none"
    ELSE subs[w].inbox[Len(subs[w].inbox)].decision

\* the decision now published for the symbol of subscriber w
PublishedFor(w) ==
    IF Upper(subs[w].name) \in DOMAIN latest
    THEN latest[Upper(subs[w].name)].decision
    ELSE "none"

C16_PublishingNeverWaits ==
    /\ [](ticks < MaxFairTicks => ENABLED IngestTick)
    /\ [](\A s \in Tracked : Len(prices[s]) = drawn[s])
    /\ <>(ticks = MaxFairTicks)

\* three ticks were applied while one subscriber is stalled in the send of
\* its snapshot and the client of the other, which sleeps, is gone
C16_Witness ==
    /\ ticks >= 3
    /\ Len(prices["XYZ"]) = 1 /\ Len(prices["ABC"]) = 1 /\ Len(prices["DEF"]) = 1
    /\ subs["w1"].pc = "send_initial"
    /\ subs["w2"].pc = "sleep" /\ ~subs["w2"].open

\* C17: when a subscriber disconnects, is cancelled or is closed, the step
\* leaves every window, every published signal, the consumer and every
\* other subscriber as they were; and with a subscriber gone, a lasting
\* change of the decision is still sent to every other connected subscriber.
C17_LeavingAffectsNobody ==
    /\ [][\A w \in Subscribers :
            (subs[w].open /\ ~subs'[w].open) =>
                /\ UNCHANGED <<symbols, task, prices, latest, walk, seed, drawn,
                               cursor, ticks, resp, produced>>
                /\ \A v \in Subscribers \ {w} : subs'[v] = subs[v]]_vars
    /\ \A w \in Subscribers : \A v \in Subscribers \ {w} : \A d \in Decisions :
          (/\ subs[w].pc # "idle" /\ ~subs[w].open
           /\ Listening(v) /\ PublishedFor(v) = d /\ LastDelivered(v) # d)
              ~> (~subs[v].open \/ LastDelivered(v) = d \/ PublishedFor(v) # d)

\* with one subscriber gone, the other is being sent the change to BUY
C17_Witness ==
    /\ subs["w2"].pc = "done" /\ ~subs["w2"].open /\ Len(subs["w2"].inbox) = 1
    /\ subs["w1"].open
    /\ subs["w1"].pc = "send_change"
    /\ subs["w1"].current = "BUY"

(***************************************************************************)
(* Properties of the store                                                 *)
(***************************************************************************)
\* C18: only the ingestion path mutates per-symbol state.  A step that
\* changes a window or a published signal is a step of the consumer (a tick
\* is counted, no response is produced, no subscriber moves): get_signal and
\* the subscriber's handler change neither.  And the window a tick leaves is
\* the window before it with the tick's price appended: the indicator
\* functions called on it have not touched it.
C18_OnlyIngestionMutates ==
    [][/\ (prices' # prices \/ latest' # latest) =>
            (ticks' = ticks + 1 /\ resp' = resp /\ subs' = subs)
       /\ \A s \in Tracked :
            prices'[s] # prices[s] => prices'[s] = Append(prices[s], walk'[s])]_vars

\* a get_signal returned BUY, and the subscriber was sent it, while BUY is
\* what is published
C18_Witness ==
    /\ latest["XYZ"].decision = "BUY"
    /\ resp.status = 200 /\ resp.symbol = "XYZ" /\ resp.decision = "BUY"
    /\ Len(subs["w1"].inbox) = 2
    /\ subs["w1"].pc = "sleep"

\* C19: the keys of the symbol-to-state mapping are those of startup, in
\* every state, whatever symbols ticks, get_signal calls and subscriptions
\* name; and no key's state is replaced by a fresh one: its window never
\* gets shorter.
C19_TrackedSetFixed ==
    /\ [](DOMAIN prices = Tracked /\ DOMAIN latest = Tracked)
    /\ [][\A s \in Tracked : Len(prices'[s]) >= Len(prices[s])]_vars

\* a tick, a get_signal and a subscription have each named an untracked
\* symbol
C19_Witness ==
    /\ "QQQ" \in DOMAIN drawn /\ drawn["QQQ"] >= 1
    /\ resp.status = 404
    /\ subs["w1"].name = "qqq" /\ subs["w1"].pc = "done"
    /\ Len(prices["XYZ"]) >= 2

\* what GET /signal/{name} is to return in the current state
ExpectedResponse(name) ==
    IF Upper(name) \in Tracked
    THEN [status |-> 200, symbol |-> Upper(name)] @@ latest[Upper(name)]
    ELSE [status |-> 404, detail |-> name]

\* C20: a get_signal call returns, for a name that upper-cased is not
\* tracked, the 404 result, and for a name that upper-cased is tracked, that
\* symbol's published signal with status 200; and the call changes nothing
\* but the response.
C20_UntrackedIsNotFound ==
    /\ [](resp.status = 404 => Upper(resp.detail) \notin Tracked)
    /\ [](resp.status = 200 => resp.symbol \in Tracked)
    /\ [][resp' # resp =>
            /\ \E name \in ClientNames : resp' = ExpectedResponse(name)
            /\ UNCHANGED <<symbols, task, prices, latest, walk, seed, drawn, cursor,
                           ticks, produced, subs, unitVars>>]_vars

\* a call for an untracked name was answered 404 while a tracked symbol has
\* a decision to report
C20_Witness ==
    /\ resp.status = 404
    /\ resp.detail = "qqq"
    /\ latest["XYZ"].decision # "HOLD"

\* C21: a tick whose symbol is not tracked is dropped.  The step that
\* consumes it changes no window and no signal and leaves the consumer task
\* running and moved on to the next symbol of the round; the task never
\* fails; and every tick streamed for a tracked symbol, before or after a
\* dropped one, is in that symbol's window.
C21_UntrackedTickDropped ==
    /\ [][(ticks' = ticks + 1 /\ symbols[cursor] \notin Tracked) =>
            /\ UNCHANGED <<prices, latest, produced, task>>
            /\ cursor' = IF cursor = Len(symbols) THEN 1 ELSE cursor + 1]_vars
    /\ [](task.consumer # "failed")
    /\ [](\A s \in Tracked :
            Len(prices[s]) = IF s \in DOMAIN drawn THEN drawn[s] ELSE 0)

\* untracked ticks were dropped and ticks after them were applied, up to a
\* published BUY
C21_Witness ==
    /\ "QQQ" \in DOMAIN drawn /\ drawn["QQQ"] >= 2
    /\ Len(prices["ABC"]) >= 3
    /\ latest["XYZ"].decision = "BUY"

\* a float: a ratio with a positive denominator, not the error value
IsNumber(x) == x[2] > 0

\* C22: in every state, from before the first tick on, each tracked symbol
\* has a published signal with trend UP, DOWN or FLAT, decision BUY, SELL or
\* HOLD and a numeric rsi; BUY only with UP, SELL only with DOWN, FLAT only
\* with HOLD; and the consumer task has not failed.
C22_SignalWellFormed ==
    /\ task.consumer = "running"
    /\ \A s \in Tracked :
          /\ latest[s].trend \in {"UP", "DOWN", "FLAT"}
          /\ latest[s].decision \in {"BUY", "SELL", "HOLD"}
          /\ IsNumber(latest[s].rsi)
          /\ latest[s].decision = "BUY" => latest[s].trend = "UP"
          /\ latest[s].decision = "SELL" => latest[s].trend = "DOWN"
          /\ latest[s].trend = "FLAT" => latest[s].decision = "HOLD"

\* one symbol bought with no gain in its window, one with no loss in its
\* window, one with too few prices for the moving averages
C22_Witness ==
    /\ latest["XYZ"] = [trend |-> "UP", decision |-> "BUY", rsi |-> Float(0)]
    /\ latest["ABC"].rsi = Float(100)
    /\ Len(prices["DEF"]) \in 1..(MA_SHORT - 1)
    /\ latest["DEF"].trend = "FLAT"

(***************************************************************************)
(* Properties of the indicator functions, continued                        *)
(***************************************************************************)
\* C23 as stated: an invalid period is refused when the state is
\* constructed, so that no computation call on a constructed SymbolState
\* signals the precondition violation.
C23_RefusedAtConstruction ==
    out.fn \in {"sma", "rsi"} => out.value # ValueError

\* C23, amended: every call of calculate_sma or calculate_rsi with a
\* period <= 0 signals the error and returns no number, whatever the window
\* holds, and every call with a period > 0 returns a number.  Nothing is
\* checked at construction: a SymbolState takes no period.
C23_RefusedAtEveryCall ==
    out.fn \in {"sma", "rsi"} =>
        /\ out.period <= 0 => (out.value = ValueError /\ ~IsNumber(out.value))
        /\ out.period > 0 => IsNumber(out.value)

\* calculate_rsi of a window that has moves, with a negative period
C23_Witness ==
    /\ out.fn = "rsi"
    /\ out.period < 0
    /\ out.value = ValueError
    /\ Len(win) = 3 /\ win[1] # win[2]

(***************************************************************************)
(* Properties of the service, continued                                    *)
(***************************************************************************)
\* C24: while a symbol's window holds fewer than 20 prices every signal
\* published for it is (FLAT, HOLD), whatever its RSI; and a subscriber of
\* the symbol has been sent nothing but the HOLD snapshot and is not being
\* sent a change.
C24_QuietBeforeTwentyPrices ==
    /\ \A s \in Tracked :
          Len(prices[s]) < 20 =>
              \A sig \in produced[s] \cup {latest[s]} :
                  sig.trend = "FLAT" /\ sig.decision = "HOLD"
    /\ \A w \in Subscribers :
          (Upper(subs[w].name) \in Tracked
              /\ Len(prices[Upper(subs[w].name)]) < 20) =>
                /\ Len(subs[w].inbox) <= 1
                /\ \A i \in 1..Len(subs[w].inbox) :
                      subs[w].inbox[i].decision = "HOLD"
                /\ subs[w].pc # "send_change"

\* nineteen falling prices: the RSI is 0, the signal is still (FLAT, HOLD)
\* and the subscriber has its snapshot only
C24_Witness ==
    /\ Len(prices["XYZ"]) = 19
    /\ latest["XYZ"].rsi = Float(0)
    /\ subs["w1"].name = "xyz"
    /\ subs["w1"].pc = "sleep"
    /\ Len(subs["w1"].inbox) = 1

(***************************************************************************)
(* Properties of calculate_rsi, continued                                  *)
(***************************************************************************)
HasUp(w) == \E i \in 1..(Len(w) - 1) : w[i + 1] > w[i]

HasDown(w) == \E i \in 1..(Len(w) - 1) : w[i + 1] < w[i]

\* the four cases of a window's moves and the RSI each one gives
RsiExtremes ==
    /\ (out.value = Float(100)) <=> (HasUp(win) /\ ~HasDown(win))
    /\ (out.value = Zero) <=> (HasDown(win) /\ ~HasUp(win))
    /\ (~HasUp(win) /\ ~HasDown(win)) => out.value = Float(50)
    /\ (HasUp(win) /\ HasDown(win)) =>
          RLt(Zero, out.value) /\ RLt(out.value, Float(100))

\* C25 as stated: for every period > 0 and a window of at least period + 1
\* prices, calculate_rsi returns 100.0 exactly when the window has an upward
\* and no downward move, 0.0 exactly when it has a downward and no upward
\* move, 50.0 when no price moves, and a value strictly between 0 and 100
\* when it has both.
C25_RsiExtremes ==
    (Called("rsi") /\ Len(win) >= out.period + 1) => RsiExtremes

\* C25, amended: the same for every period >= 2. With period 1 the smoothing
\* keeps nothing of the earlier moves and the result is that of the last
\* move alone.
C25_RsiExtremesFromPeriodTwo ==
    (Called("rsi") /\ out.period >= 2 /\ Len(win) >= out.period + 1) =>
        RsiExtremes

\* a rise, a fall and a smoothed flat move under period 2: the fall seeded
\* into the average keeps the RSI strictly inside (0, 100)
C25_Witness ==
    /\ Called("rsi") /\ out.period = 2
    /\ win = <<1, 3, 2, 2>>
    /\ out.value = <<200, 3>>

(***************************************************************************)
(* Per-symbol isolation                                                    *)
(***************************************************************************)
RECURSIVE TicksAlone(_, _, _)
\* the first n prices price_stream yields for a symbol whose shocks are
\* `pattern`, leaving from price p
TicksAlone(pattern, p, n) ==
    IF n = 0 THEN <<>>
    ELSE LET before == TicksAlone(pattern, p, n - 1)
             from   == IF n = 1 THEN p ELSE before[n - 1]
         IN  Append(before, NextWalk(from, pattern[((n - 1) % Len(pattern)) + 1]))

RECURSIVE WindowAlone(_, _)
\* a fresh SymbolState fed the first n of `feed`
WindowAlone(feed, n) ==
    IF n = 0 THEN <<>>
    ELSE add_price(WindowAlone(feed, n - 1), DEFAULT_MAX_SIZE, feed[n])

\* the signal of a SymbolState that was fed `feed` and nothing else
SignalAlone(feed) ==
    IF feed = <<>> THEN InitialSignal
    ELSE Publish(InitialSignal,
                 determine_trend_and_decision(WindowAlone(feed, Len(feed))))

\* C26: a step that changes the window or the signal of a tracked symbol is
\* the consumption of a tick of that symbol and changes the window and
\* signal of no other symbol; and in every state of the interleaved service
\* each symbol's window and signal are those of a SymbolState fed that
\* symbol's ticks alone.
C26_SameAsReplayedAlone ==
    /\ [][\A s \in Tracked :
            (prices'[s] # prices[s] \/ latest'[s] # latest[s]) =>
                /\ s = symbols[cursor]
                /\ \A t \in Tracked \ {s} :
                      prices'[t] = prices[t] /\ latest'[t] = latest[t]]_vars
    /\ [](\A s \in Tracked :
            LET feed == TicksAlone(seed[s], BASE_PRICE, drawn[s])
            IN  /\ prices[s] = WindowAlone(feed, Len(feed))
                /\ latest[s] = SignalAlone(feed))

\* three symbols with different feeds, interleaved for nineteen rounds and more: one
\* rose, one fell, one stood still, and their signals differ
C26_Witness ==
    /\ Len(prices["XYZ"]) = MA_SHORT
    /\ \A s \in Tracked : Len(prices[s]) >= MA_SHORT - 1
    /\ latest["XYZ"].rsi = Float(100)
    /\ latest["ABC"].rsi = Zero
    /\ latest["DEF"].rsi = Float(50)

NewTrades ==
    SubSeq(bt.trades, Len(call.before.trades) + 1, Len(bt.trades))

\* the last call was on_bar for a bar of another calendar day than the
\* current one, with a position open
DayChangedInPosition ==
    /\ call.fn = "on_bar"
    /\ call.before.current_day # None
    /\ call.ts.day # call.before.current_day
    /\ call.before.position # 0

\* C28: when on_bar processes a bar of another calendar day while a position
\* is open, the first trade of that bar closes the whole position, any
\* crossover order of the bar comes after it, and the closing trade is
\* filled at the previous bar's close less one tick.
C28_FlattenAtPreviousClose ==
    DayChangedInPosition =>
        /\ Len(NewTrades) >= 1
        /\ NewTrades[1].side = "SELL"
        /\ NewTrades[1].qty = call.before.position
        /\ NewTrades[1].timestamp = Midnight(call.ts)
        /\ \A i \in 2..Len(NewTrades) :
              NewTrades[i].side = "BUY" /\ NewTrades[i].timestamp = call.ts
        /\ NewTrades[1].price = bars[Len(bars) - 1].close - TICK_SIZE

\* C29: the position is 0 or exactly size, trades alternate BUY, SELL from
\* a first BUY, and no trade exists before `slow` bars have been processed.
C29_LongFlatOnly ==
    /\ bt.position \in {0, bt.size}
    /\ \A i \in 1..Len(bt.trades) :
          /\ bt.trades[i].side = (IF i % 2 = 1 THEN "BUY" ELSE "SELL")
          /\ bt.trades[i].qty = bt.size
    /\ bt.position = (IF Len(bt.trades) % 2 = 1 THEN bt.size ELSE 0)
    /\ bt.trades # <<>> => Len(bars) >= bt.slow

\* bought, flattened at a day change and bought again, two units each time
C29_Witness ==
    /\ bt.size = 2 /\ bt.position = 2
    /\ Len(bt.trades) = 3
    /\ bt.trades[2].timestamp.time = 0

\* C30: after finalize the position is 0; an open position was closed by
\* one SELL of the whole position at the last bar's close less one tick,
\* stamped like the last equity point, and one equity point, the cash, was
\* appended; a flat backtester is left exactly as it was, so that a second
\* finalize changes nothing.
C30_FinalizeFlattens ==
    call.fn = "finalize" =>
        /\ bt.position = 0
        /\ IF call.before.position = 0
           THEN bt = call.before
           ELSE LET was  == call.before
                    last == was.equity_curve[Len(was.equity_curve)]
                IN  /\ Len(NewTrades) = 1
                    /\ NewTrades[1].side = "SELL"
                    /\ NewTrades[1].qty = was.position
                    /\ NewTrades[1].price = bars[Len(bars)].close - TICK_SIZE
                    /\ NewTrades[1].timestamp = last[1]
                    /\ bt.equity_curve = Append(was.equity_curve, <<last[1], bt.cash>>)

\* a finalize that found nothing to do, after an earlier finalize had closed
\* a position and added its equity point
C30_Witness ==
    /\ call.fn = "finalize"
    /\ bt = call.before
    /\ Len(bt.trades) = 2
    /\ bt.trades[2].timestamp.time # 0
    /\ Len(bt.equity_curve) = Len(bars) + 1

RECURSIVE CashOfTrades(_, _)
\* what the first n recorded trades add up to: + fill * qty for a SELL,
\* - fill * qty for a BUY, less the fee, in 1/10000 of a tick
CashOfTrades(trades, n) ==
    IF n = 0 THEN 0
    ELSE LET t == trades[n]
         IN  CashOfTrades(trades, n - 1)
               + (IF t.side = "SELL" THEN 10000 * (t.price * t.qty)
                                     ELSE 0 - 10000 * (t.price * t.qty))
               - t.fee

\* the close of the bar on_bar was processing at ts; a trade stamped
\* midnight was made while the first bar of that day was processed
CloseAt(ts) ==
    IF ts.time > 0 THEN bars[ts.time].close
    ELSE LET first == CHOOSE k \in 1..Len(bars) :
                         /\ bars[k].ts.day = ts.day
                         /\ \A j \in 1..(k - 1) : bars[j].ts.day # ts.day
         IN  bars[first].close

\* C31: every BUY is filled one tick above and every SELL one tick below
\* the price it was placed at, every trade carries the fee
\* |fill * qty| * fee_bps / 10000, which is not negative, the cash is the
\* sum over the recorded trades of the signed notional less the fee, and
\* each on_bar call appends exactly one equity point, equal to
\* cash + position * close as they are when it is recorded.
C31_FillsAndAccounting ==
    /\ \A i \in 1..Len(bt.trades) :
          LET t == bt.trades[i] IN
          /\ t.side = "BUY" => t.price = CloseAt(t.timestamp) + 1
          /\ t.side = "SELL" => t.price = CloseAt(t.timestamp) - 1
          /\ t.fee = (IF t.price * t.qty < 0 THEN 0 - t.price * t.qty
                                             ELSE t.price * t.qty)
          /\ t.fee >= 0
    /\ bt.cash = CashOfTrades(bt.trades, Len(bt.trades))
    /\ call.fn = "on_bar" =>
          bt.equity_curve =
              Append(call.before.equity_curve,
                     <<call.ts, bt.cash + 10000 * (bt.position * call.close)>>)
    /\ call.fn = "finalize" =>
          \/ bt.equity_curve = call.before.equity_curve
          \/ /\ Len(bt.equity_curve) = Len(call.before.equity_curve) + 1
             /\ bt.equity_curve[Len(bt.equity_curve)][2] = bt.cash
    /\ Len(bt.equity_curve) >= Len(bars)

\* a bar that ended with two units held after a buy, an end-of-day sale and
\* a second buy: the equity recorded for it is not the cash
C31_Witness ==
    /\ call.fn = "on_bar"
    /\ bt.position = 2
    /\ Len(bt.trades) = 3
    /\ bt.trades[2].timestamp.time = 0
    /\ bt.equity_curve[Len(bt.equity_curve)][2] # bt.cash
    /\ bt.cash < 0

=============================================================================
